---- MODULE Spec2Model ----
(***************************************************************************)
(* Contract-first CASL authorization: the rule model, the condition        *)
(* interpolator, the ability built by createAppAbility (AbilityBuilder +   *)
(* createMongoAbility of @casl/ability), the Fastify request handlers     *)
(* that consult it, the frontend's App, the rule generator and the schema  *)
(* extractor (extractAppPolicy, createDefaultUserPolicy).                  *)
(***************************************************************************)
EXTENDS Integers, Sequences, FiniteSets, TLC

VARIABLES
    \* ---- the backend (src/backend/api/index.ts) ----
    posts,        \* the Post table: a set of rows [id, title, content, authorId]
    nextId,       \* the Post table's AUTOINCREMENT counter
    policies,     \* the UserPolicies table: userId -> stored policyJson (or none)
    resp,         \* the last request and the response to it
    appRules,     \* the array APP_ABILITY_RULES that every request shares
    lastHeader,   \* the user-id header of the last request, in the runs that keep it
    \* ---- interpolateConditions applied to drawn inputs ----
    conditions,   \* the conditions argument
    context,      \* the context argument
    once,         \* interpolateConditions(conditions, context)
    twice,        \* interpolateConditions(once, context)
    ipc,          \* "input" | "once" | "twice"
    \* ---- createAppAbility(...).can(...) applied to drawn inputs ----
    userRules,    \* the rule list handed to createAppAbility
    userCtx,      \* the context handed to createAppAbility
    builder,      \* the function that builds the ability from the rule list
    query,        \* the arguments of the last can() call
    answer,       \* what that call did: "true" | "false" | "throws" | "none"
    \* ---- the frontend (src/frontend/src/App.tsx) ----
    frontend,     \* the state of App: currentUserId, userRules, posts, appSchema, the
                  \* updateUserPolicy request it has in flight and the clicks so far
    \* ---- the rule generator (extractAbilityRules) applied to drawn contracts ----
    routeTree,    \* the contract: a sequence of routers, each a sequence of routes
    generated,    \* the generated rule list, once the generator has run
    \* ---- the schema extractor (extractAppPolicy) applied to drawn route trees ----
    contractRoot, \* the value handed to extractAppPolicy: a nested keyed structure
    appPolicy     \* what extractAppPolicy and createDefaultUserPolicy made of it

vars == <<posts, nextId, policies, resp, appRules, lastHeader, conditions, context, once, twice, ipc,
          userRules, userCtx, builder, query, answer, frontend, routeTree, generated,
          contractRoot, appPolicy>>

serverVars == <<posts, nextId, policies, resp, appRules, lastHeader>>
interpVars == <<conditions, context, once, twice, ipc>>
abilityVars == <<userRules, userCtx, builder, query, answer>>
extractVars == <<routeTree, generated>>
schemaVars == <<contractRoot, appPolicy>>

(***************************************************************************)
(* JavaScript values.  Every value is a record of one shape, so that any   *)
(* two values can be compared: === between two values is record equality.  *)
(* A string is the sequence of its pieces: each brace and each blank is a  *)
(* piece of one character, a name (userId, ...) is one piece that holds    *)
(* neither braces nor blanks.  startsWith('{{'), endsWith('}}') and        *)
(* slice(2, -2) look only at brace pieces, so they act on pieces exactly   *)
(* as they act on characters.                                              *)
(***************************************************************************)
Num(n) == [t |-> "num", n |-> n, s |-> <<>>]
Str(s) == [t |-> "str", n |-> 0, s |-> s]
Undefined == [t |-> "undefined", n |-> 0, s |-> <<>>]
\* the marker of a key an object does not have
NoKey == [t |-> "nokey", n |-> 0, s |-> <<>>]
\* a nested object whose one member holds the string s, such as {$eq: "{{userId}}"}
Obj(s) == [t |-> "obj", n |-> 0, s |-> s]

\* the fields of a Post
PostFields == {"id", "title", "content", "authorId"}

\* obj[key] of JavaScript: undefined when the object has no such key
Get(obj, key) == IF key \in DOMAIN obj /\ obj[key] # NoKey THEN obj[key] ELSE Undefined

\* Object.keys(obj)
Keys(obj) == {k \in DOMAIN obj : obj[k] # NoKey}

\* a conditions argument: absent (undefined or null), or a map field -> value
NoConditions == [has |-> FALSE, nul |-> FALSE, map |-> [k \in PostFields |-> NoKey]]
NullConditions == [has |-> FALSE, nul |-> TRUE, map |-> [k \in PostFields |-> NoKey]]
Conditions(m) == [has |-> TRUE, nul |-> FALSE, map |-> m]
EmptyMap == [k \in PostFields |-> NoKey]

\* value.startsWith('{{')
StartsWithBraces(s) == Len(s) >= 2 /\ s[1] = "{" /\ s[2] = "{"
\* value.endsWith('}}')
EndsWithBraces(s) == Len(s) >= 2 /\ s[Len(s) - 1] = "}" /\ s[Len(s)] = "}"
\* value.slice(2, -2)
Slice2(s) == SubSeq(s, 3, Len(s) - 2)

\* a lookup that falls back to the user id for a name the context lacks
ContextGetOrUserId(ctx, contextKey) ==
    IF Len(contextKey) = 1 /\ contextKey[1] \in DOMAIN ctx
    THEN ctx[contextKey[1]]
    ELSE ctx["userId"]
\* context[contextKey]: the context's own entry under that name, else undefined
ContextGet(ctx, contextKey) ==
    IF Len(contextKey) = 1 /\ contextKey[1] \in DOMAIN ctx
    THEN ctx[contextKey[1]]
    ELSE Undefined

\* the test of the loop body: typeof value === 'string' && startsWith && endsWith
IsTemplate(value) ==
    value.t = "str" /\ StartsWithBraces(value.s) /\ EndsWithBraces(value.s)

\* the text between the braces with its leading and trailing blanks dropped
RECURSIVE TrimLeft(_)
TrimLeft(s) == IF Len(s) > 0 /\ s[1] = " " THEN TrimLeft(Tail(s)) ELSE s
RECURSIVE TrimRight(_)
TrimRight(s) ==
    IF Len(s) > 0 /\ s[Len(s)] = " " THEN TrimRight(SubSeq(s, 1, Len(s) - 1)) ELSE s
ContextKeyTrimmed(s) == TrimLeft(TrimRight(Slice2(s)))
\* const contextKey = value.slice(2, -2): the text between the braces, as written
ContextKey(s) == Slice2(s)

\* an entry resolved in depth: the placeholder inside a nested object is replaced too
InterpolateValueInDepth(value, ctx) ==
    IF value.t = "str" /\ StartsWithBraces(value.s) /\ EndsWithBraces(value.s)
    THEN ContextGet(ctx, ContextKey(value.s))
    ELSE IF value.t = "obj" /\ StartsWithBraces(value.s) /\ EndsWithBraces(value.s)
    THEN Obj(<<"resolved">>)
    ELSE value
\* one entry of the loop: a template string becomes context[contextKey]
InterpolateValue(value, ctx) ==
    IF IsTemplate(value) THEN ContextGet(ctx, ContextKey(value.s)) ELSE value

\* interpolateConditions that leaves the loop after the first placeholder it resolves
interpolateConditionsFirstOnly(c, ctx) ==
    IF ~c.has
    THEN c
    ELSE LET first == IF \E k \in DOMAIN c.map : IsTemplate(c.map[k])
                      THEN CHOOSE k \in DOMAIN c.map : IsTemplate(c.map[k])
                      ELSE ""
         IN  Conditions([k \in DOMAIN c.map |->
                            IF k = first THEN InterpolateValue(c.map[k], ctx) ELSE c.map[k]])

\* interpolateConditions(conditions, context)
interpolateConditions(c, ctx) ==
    IF ~c.has
    THEN c
    ELSE Conditions([k \in DOMAIN c.map |->
                       IF c.map[k] = NoKey THEN NoKey
                       ELSE InterpolateValue(c.map[k], ctx)])

(***************************************************************************)
(* Rules (AppRawRule) and the ability built from them.                     *)
(***************************************************************************)
\* rule.fields: absent, or an array of field names
NoFields == [has |-> FALSE, names |-> {}]
FieldList(names) == [has |-> TRUE, names |-> names]

\* the action or subject of a rule that has no such member (undefined); "" is the
\* empty string
NoName == "(undefined)"
\* !name of JavaScript: undefined and the empty string are falsy
Falsy(name) == name \in {NoName, ""}

\* an AppRawRule; a missing optional member is NoConditions / NoFields / FALSE / ""
Rule(action, subject, conds, fields, inverted) ==
    [action |-> action, subject |-> subject, conditions |-> conds,
     fields |-> fields, inverted |-> inverted, reason |-> ""]

\* a PolicyRule of the schema: {action, subject, conditions}
PolicyRule(action, subject, conds) == Rule(action, subject, conds, NoFields, FALSE)

\* the index of the entry a schema has under the key subject, 0 when there is no such entry
EntryIndex(schema, subject) ==
    IF \E i \in 1..Len(schema) : schema[i].subject = subject
    THEN CHOOSE i \in 1..Len(schema) : schema[i].subject = subject
    ELSE 0

\* the rule with its reason member set
WithReason(rule, reason) == [rule EXCEPT !.reason = reason]

\* CASL's markers for "any action" and "any subject"
AnyAction == "manage"
AnySubjectType == "all"

\* AbilityBuilder.can(action, subject, conditionsOrFields, conditions), as
\* createAppAbility calls it: can(rule.action, rule.subject, rule.fields, conditions).
\* An array third argument becomes the raw rule's fields, a defined fourth
\* argument its conditions; without a subject nothing but the action is kept.
BuilderCan(action, subject, fields, conds) ==
    IF Falsy(subject)
    THEN [action |-> action, subject |-> NoName, conditions |-> NoConditions,
          fields |-> NoFields, inverted |-> FALSE]
    ELSE [action |-> action, subject |-> subject, conditions |-> conds,
          fields |-> fields, inverted |-> FALSE]

\* a cannot() that forgets to mark the rule inverted
BuilderCannotNotInverted(action, subject, conds) ==
    [action |-> action, subject |-> subject, conditions |-> conds,
     fields |-> NoFields, inverted |-> FALSE]
\* AbilityBuilder.cannot(action, subject, conditionsOrFields), as createAppAbility
\* calls it: cannot(rule.action, rule.subject, conditions).  The third argument is
\* the conditions object; rule.fields is not handed over.
BuilderCannot(action, subject, conds) ==
    IF Falsy(subject)
    THEN [action |-> action, subject |-> NoName, conditions |-> NoConditions,
          fields |-> NoFields, inverted |-> TRUE]
    ELSE [action |-> action, subject |-> subject, conditions |-> conds,
          fields |-> NoFields, inverted |-> TRUE]

\* the body of createAppAbility's loop for one rule
RawRuleOf(rule, ctx) ==
    LET conds == IF rule.conditions.has
                 THEN interpolateConditions(rule.conditions, ctx)
                 ELSE NoConditions
    IN  IF rule.inverted
        THEN BuilderCannot(rule.action, rule.subject, conds)
        ELSE BuilderCan(rule.action, rule.subject, rule.fields, conds)

\* new Rule(rawRule): validate() rejects an empty fields array
RuleIsValid(raw) == ~(raw.fields.has /\ raw.fields.names = {})

\* createAppAbility(userRules, context): the raw rules in list order, and whether
\* build() returned (ok) or threw
createAppAbility(rules, ctx) ==
    LET raws == [i \in 1..Len(rules) |-> RawRuleOf(rules[i], ctx)]
    IN  [ok |-> \A i \in 1..Len(rules) : RuleIsValid(raws[i]), rules |-> raws]

\* an interpolateConditions that writes into the object it was handed
ConditionsAfterInterpolateInPlace(c, ctx) == interpolateConditions(c, ctx)
\* the conditions object handed to interpolateConditions, after the call: result is
\* the copy {...conditions} and every write goes to result
ConditionsAfterInterpolate(c, ctx) == c
\* the rule list handed to createAppAbility, after the call: the loop reads the
\* rules and hands rule.conditions, when truthy, to interpolateConditions
RulesAfterCreateAppAbility(rules, ctx) ==
    [i \in 1..Len(rules) |->
        IF rules[i].conditions.has
        THEN [rules[i] EXCEPT !.conditions = ConditionsAfterInterpolate(@, ctx)]
        ELSE rules[i]]

\* createTypedAbilityFromJSON(userRules): createMongoAbility over the rules as given
createTypedAbilityFromJSON(rules) ==
    LET raws == [i \in 1..Len(rules) |->
                    [action |-> rules[i].action, subject |-> rules[i].subject,
                     conditions |-> rules[i].conditions, fields |-> rules[i].fields,
                     inverted |-> rules[i].inverted]]
    IN  [ok |-> \A i \in 1..Len(rules) : RuleIsValid(raws[i]), rules |-> raws]

(***************************************************************************)
(* ability.can(action, subject, field) of @casl/ability.                   *)
(* subject: a subject type (a string), or an object whose type CASL        *)
(* detects; field: absent, a field name, or (wrongly) an object.           *)
(***************************************************************************)
SubjectType(type) == [kind |-> "type", type |-> type, obj |-> EmptyMap]
\* an object CASL detects as `type` (a class instance, or subject(type, obj))
SubjectInstance(type, obj) == [kind |-> "instance", type |-> type, obj |-> obj]
\* a plain object literal: its constructor is Object, whatever members it has
PlainObject(obj) == SubjectInstance("Object", obj)

NoField == [kind |-> "none", name |-> ""]
FieldName(name) == [kind |-> "name", name |-> name]
\* an object passed where the field name belongs
FieldObject == [kind |-> "object", name |-> ""]

\* detectSubjectType(subject)
DetectSubjectType(subject) == subject.type

\* rule.subject || anySubjectType, as the index files the rule
IndexedSubject(raw) == IF Falsy(raw.subject) THEN AnySubjectType ELSE raw.subject

\* the rules possibleRulesFor(action, subjectType) merges: the rules filed under
\* the action or "manage", and under the subject type or "all"
IsPossibleRule(raw, action, subjectType) ==
    /\ raw.action \in {action, AnyAction}
    /\ IndexedSubject(raw) \in {subjectType, AnySubjectType}

\* Rule.matchesField(field)
MatchesField(raw, field) ==
    IF ~raw.fields.has THEN TRUE
    ELSE IF field.kind = "none" THEN ~raw.inverted
    ELSE field.name \in raw.fields.names

\* a matcher satisfied by one matching key
MatchesObjectAnyKey(map, obj) == \E k \in Keys(map) : Get(obj, k) = map[k]
\* the conditions matcher on flat conditions: every key's value === object[key]
MatchesObject(map, obj) == \A k \in Keys(map) : Get(obj, k) = map[k]

\* a matchesConditions that never looks at the subject
MatchesConditionsIgnoringObject(raw, subject) == TRUE
\* Rule.matchesConditions(object)
MatchesConditions(raw, subject) ==
    IF ~raw.conditions.has THEN TRUE
    ELSE IF subject.kind # "instance" THEN ~raw.inverted
    ELSE MatchesObject(raw.conditions.map, subject.obj)

\* _hasPerFieldRules
HasPerFieldRules(ability) == \E i \in 1..Len(ability.rules) : ability.rules[i].fields.has

\* rulesFor(action, subjectType, field), as the set of positions in the rule list
RulesFor(ability, action, subjectType, field) ==
    {i \in 1..Len(ability.rules) :
        /\ IsPossibleRule(ability.rules[i], action, subjectType)
        /\ HasPerFieldRules(ability) => MatchesField(ability.rules[i], field)}

\* the positions relevantRuleFor chooses among: rulesFor(...) whose conditions match
RelevantRules(ability, action, subject, field) ==
    {i \in RulesFor(ability, action, DetectSubjectType(subject), field) :
        MatchesConditions(ability.rules[i], subject)}

Max(S) == CHOOSE x \in S : \A y \in S : y <= x
Min(S) == CHOOSE x \in S : \A y \in S : x <= y

\* a choice by declaration order, the first rule declared first
RelevantRuleFirstDeclared(S) == Min(S)
\* relevantRuleFor: rules are tried by priority, the last one declared first
RelevantRule(S) == Max(S)

\* ability.can(action, subject, field): "throws" when the third argument is
\* not a string, else whether the relevant rule exists and is not inverted
Can(ability, action, subject, field) ==
    IF field.kind = "object" THEN "throws"
    ELSE LET S == RelevantRules(ability, action, subject, field)
         IN  IF S # {} /\ ~ability.rules[RelevantRule(S)].inverted
             THEN "true" ELSE "false"

(***************************************************************************)
(* Inputs.                                                                 *)
(***************************************************************************)
\* pieces of strings
Open == <<"{", "{">>
Close == <<"}", "}">>
\* "{{name}}"
Template(name) == Str(Open \o <<name>> \o Close)

\* a conditions map with the one entry field: value
OneCondition(field, value) ==
    Conditions([k \in PostFields |-> IF k = field THEN value ELSE NoKey])

\* a Post row as an object
PostObject(id, authorId) ==
    [k \in PostFields |->
        CASE k = "id" -> Num(id)
          [] k = "authorId" -> Num(authorId)
          [] k = "title" -> Str(<<"title">>)
          [] OTHER -> Str(<<"content">>)]

\* the user ids of the examples: the requester's and another author's
UserIds == {7, 9}

\* the rules the ability is built from in the checks of can()
RuleUniverse ==
    { Rule("delete", "Post", NoConditions, NoFields, FALSE),
      Rule("delete", "Post", OneCondition("authorId", Template("userId")), NoFields, FALSE),
      Rule("delete", "Post", OneCondition("authorId", Num(9)), NoFields, FALSE),
      Rule("delete", "Post", OneCondition("authorId", Template("missingKey")), NoFields, FALSE),
      Rule("delete", "Post",
           Conditions([k \in PostFields |->
                         CASE k = "authorId" -> Template("userId")
                           [] k = "id" -> Num(2)
                           [] OTHER -> NoKey]),
           NoFields, FALSE),
      Rule("delete", "Post", NoConditions, NoFields, TRUE),
      Rule("delete", "Post", OneCondition("authorId", Num(9)), NoFields, TRUE),
      Rule("delete", "Post", OneCondition("authorId", Template("userId")), NoFields, TRUE),
      Rule("delete", "Post", NoConditions, FieldList({"title"}), FALSE),
      Rule("delete", "Post", NoConditions, FieldList({"title"}), TRUE),
      Rule("read", "Post", NoConditions, NoFields, FALSE),
      Rule("manage", "all", NoConditions, NoFields, FALSE),
      Rule("delete", "Post", NoConditions, FieldList({}), FALSE) }

\* the longest rule list drawn
MaxRules == 2

RECURSIVE SeqsUpTo(_, _)
SeqsUpTo(S, n) ==
    IF n = 0 THEN {<<>>}
    ELSE LET shorter == SeqsUpTo(S, n - 1)
         IN  shorter \cup {Append(q, x) : q \in {r \in shorter : Len(r) = n - 1}, x \in S}

RuleLists == SeqsUpTo(RuleUniverse, MaxRules)

\* the can() calls tried
QueryActions == {"delete", "read"}
QuerySubjects ==
    {SubjectType("Post"), SubjectType("Comment")}
    \cup {SubjectInstance("Post", PostObject(i, a)) : i \in {1, 2}, a \in UserIds}
    \cup {SubjectInstance("Post", [PostObject(1, 7) EXCEPT !["authorId"] = NoKey])}
QueryFields == {NoField, FieldName("title"), FieldName("content"), FieldObject}
Queries ==
    [action : QueryActions, subject : QuerySubjects, field : QueryFields]
NoQuery == [action |-> "", subject |-> SubjectType(""), field |-> NoField]

(***************************************************************************)
(* createAppAbility(userRules, userCtx).can(query) on drawn inputs.        *)
(***************************************************************************)
\* what the call does: build() may throw, and so may can()
CanOutcome(rules, ctx, q) ==
    LET ability == createAppAbility(rules, ctx)
    IN  IF ~ability.ok THEN "throws"
        ELSE Can(ability, q.action, q.subject, q.field)

\* the same call on the ability the frontend builds: createTypedAbilityFromJSON
\* takes no context and interpolates nothing
CanOutcomeFromJSON(rules, q) ==
    LET ability == createTypedAbilityFromJSON(rules)
    IN  IF ~ability.ok THEN "throws"
        ELSE Can(ability, q.action, q.subject, q.field)

\* the two ways the shared package builds an ability
Builders == {"createAppAbility", "createTypedAbilityFromJSON"}
AbilityOutcome(b, rules, ctx, q) ==
    IF b = "createAppAbility" THEN CanOutcome(rules, ctx, q)
    ELSE CanOutcomeFromJSON(rules, q)

\* the runs that do not keep the header of the last request
Untraced == [traced |-> FALSE, has |-> FALSE, s |-> <<>>]
IdleServer ==
    /\ posts = {}
    /\ nextId = 1
    /\ policies = <<>>
    /\ appRules = <<>>
    /\ lastHeader = Untraced
    /\ resp = [op |-> "none", userId |-> 0, postId |-> 0, status |-> 0,
               sent |-> <<>>, policy |-> <<>>, posts |-> {}]
IdleInterp ==
    /\ conditions = NoConditions
    /\ context = [userId |-> Num(7)]
    /\ once = NoConditions
    /\ twice = NoConditions
    /\ ipc = "idle"
\* no updateUserPolicy request of the frontend in flight
NoRequest == [has |-> FALSE, userId |-> 0, subject |-> "", action |-> "", rules |-> <<>>]
IdleFrontend ==
    frontend = [loaded |-> FALSE, userId |-> 1, userRules |-> <<>>, posts |-> {},
                appSchema |-> <<>>, request |-> NoRequest, toggles |-> 0]
IdleExtract ==
    /\ routeTree = <<>>
    /\ generated = [done |-> FALSE, rules |-> <<>>]
IdleSchema ==
    /\ contractRoot = <<>>
    /\ appPolicy = [state |-> "none", schema |-> <<>>, rules |-> <<>>]
IdleAbility ==
    /\ userRules = <<>>
    /\ userCtx = [userId |-> Num(7)]
    /\ builder = "createAppAbility"
    /\ query = NoQuery
    /\ answer = "none"

InitAbility ==
    /\ userRules \in RuleLists
    /\ userCtx \in {[userId |-> Num(u)] : u \in UserIds}
    /\ builder = "createAppAbility"
    /\ query = NoQuery
    /\ answer = "none"
    /\ IdleServer
    /\ IdleInterp
    /\ IdleFrontend
    /\ IdleExtract
    /\ IdleSchema

\* one can() call on the ability built from the drawn rules
Ask(q) ==
    /\ answer = "none"
    /\ query' = q
    /\ answer' = AbilityOutcome(builder, userRules, userCtx, q)
    /\ UNCHANGED <<userRules, userCtx, builder>>
    /\ UNCHANGED serverVars
    /\ UNCHANGED frontend
    /\ UNCHANGED extractVars
    /\ UNCHANGED schemaVars
    /\ UNCHANGED interpVars

NextAbility == \E q \in Queries : Ask(q)

SpecAbility == InitAbility /\ [][NextAbility]_vars

(***************************************************************************)
(* The same calls on rule lists as JSON.parse may hand them over: a rule   *)
(* may lack its action or its subject (userRules is cast with `as any`).   *)
(***************************************************************************)
\* rules without an action, without a subject
MalformedRules ==
    { Rule(NoName, "Post", NoConditions, NoFields, FALSE),
      Rule("delete", NoName, NoConditions, NoFields, FALSE),
      Rule("delete", NoName, OneCondition("authorId", Num(9)), NoFields, TRUE) }

\* the rules drawn next to them
BuildUniverse ==
    MalformedRules \cup
    { Rule("delete", "Post", OneCondition("authorId", Template("userId")), NoFields, FALSE),
      Rule("delete", "Post", NoConditions, NoFields, TRUE),
      Rule("read", "Post", NoConditions, NoFields, FALSE),
      Rule("delete", "Post", NoConditions, FieldList({"title"}), TRUE),
      Rule("read", "Post", NoConditions, FieldList({}), FALSE) }

InitBuild ==
    /\ userRules \in SeqsUpTo(BuildUniverse, MaxRules)
    /\ userCtx \in {[userId |-> Num(u)] : u \in UserIds}
    /\ builder \in Builders
    /\ query = NoQuery
    /\ answer = "none"
    /\ IdleServer
    /\ IdleInterp
    /\ IdleFrontend
    /\ IdleExtract
    /\ IdleSchema

SpecBuild == InitBuild /\ [][NextAbility]_vars

\* the rule has no action, or no subject
Malformed(rule) == rule.action = NoName \/ rule.subject = NoName
\* C12: building an ability from a rule list that holds a rule without an action or
\* without a subject fails for the whole list: the build throws, so no can() call
\* on such a list ever gets an answer (the rule is neither skipped nor turned into
\* a rule of its own).
C12_MalformedListFailsToBuild ==
    (answer # "none" /\ \E i \in 1..Len(userRules) : Malformed(userRules[i]))
    => answer = "throws"

(***************************************************************************)
(* Claims about createAppAbility(...).can(...), checked under SpecAbility. *)
(***************************************************************************)
\* can() returned (neither build() nor can() threw)
Answered == answer \in {"true", "false"}
\* the query passes a concrete instance and names no field
InstanceQuery == query.subject.kind = "instance" /\ query.field = NoField
\* the query passes a subject type only and names no field
TypeQuery == query.subject.kind = "type" /\ query.field = NoField

\* the rule's conditions after interpolation with the drawn context
Resolved(rule) ==
    IF rule.conditions.has THEN interpolateConditions(rule.conditions, userCtx).map
    ELSE EmptyMap
\* the rule's action and subject equal the query's, or are the wildcards
NamesMatch(rule) ==
    /\ rule.action \in {query.action, "manage"}
    /\ rule.subject \in {query.subject.type, "all"}
\* every key of the interpolated conditions strictly equals the instance's value
ConditionsHold(rule) ==
    \A k \in PostFields :
        Resolved(rule)[k] # NoKey => Resolved(rule)[k] = Get(query.subject.obj, k)
\* the rule matches the query on a concrete instance
MatchesInstance(rule) == NamesMatch(rule) /\ ConditionsHold(rule)
\* positions of the rules that match the instance query
Matching == {i \in 1..Len(userRules) : MatchesInstance(userRules[i])}
\* the list without its i-th rule
Without(rules, i) == SubSeq(rules, 1, i - 1) \o SubSeq(rules, i + 1, Len(rules))

\* C3: with a concrete instance, a granting rule whose action and subject equal the
\* query's matches exactly when every key of its interpolated conditions strictly
\* equals the instance's value for that field (always, when it has no conditions):
\* the ability built from that one rule answers true exactly then.
C3_ConditionsDecideMatch ==
    (/\ Answered /\ InstanceQuery /\ Len(userRules) = 1
     /\ ~userRules[1].inverted
     /\ userRules[1].action = query.action
     /\ userRules[1].subject = query.subject.type)
    => (answer = "true" <=> ConditionsHold(userRules[1]))
\* the rule {delete, Post, authorId: userId 7} granted the delete of a post of author 7
C3_Witness ==
    /\ userRules = <<Rule("delete", "Post", OneCondition("authorId", Template("userId")),
                          NoFields, FALSE)>>
    /\ userCtx.userId = Num(7)
    /\ InstanceQuery /\ query.action = "delete"
    /\ Get(query.subject.obj, "authorId") = Num(7)
    /\ answer = "true"

\* C4: the answer to a query on a concrete instance is the verdict of the last rule
\* of the list that matches it: true if that rule grants, false if it is inverted,
\* false if no rule matches.
C4_LastMatchWins ==
    (Answered /\ InstanceQuery)
    => (answer = "true" <=> (Matching # {} /\ ~userRules[Max(Matching)].inverted))
\* [grant delete Post, forbid delete Post where authorId = 9] denied a post of author 9
C4_Witness ==
    /\ userRules = <<Rule("delete", "Post", NoConditions, NoFields, FALSE),
                     Rule("delete", "Post", OneCondition("authorId", Num(9)), NoFields, TRUE)>>
    /\ InstanceQuery /\ query.action = "delete"
    /\ Get(query.subject.obj, "authorId") = Num(9)
    /\ answer = "false"

\* every rule of the list names the query's own action and subject (no wildcard)
ExactlyNamed ==
    \A i \in 1..Len(userRules) :
        userRules[i].action = query.action /\ userRules[i].subject = query.subject.type
\* rule j has conditions on at least the fields rule i has conditions on
AtLeastAsSpecific(j, i) ==
    \A k \in PostFields : Resolved(userRules[i])[k] # NoKey => Resolved(userRules[j])[k] # NoKey
\* C5 as stated: a matching forbid rule denies wherever it stands in the list, unless
\* a grant declared after it with equally or more specific conditions matches too.
C5_ForbidWinsRegardlessOfOrder ==
    (Answered /\ InstanceQuery /\ ExactlyNamed)
    => \A i \in Matching :
         (/\ userRules[i].inverted
          /\ ~\E j \in Matching : j > i /\ ~userRules[j].inverted /\ AtLeastAsSpecific(j, i))
         => answer = "false"
\* C5, amended: a matching forbid rule denies when no matching grant is declared
\* after it, and a matching grant allows when no matching forbid is declared after
\* it, whatever the conditions of either: order decides, specificity does not.
C5_ForbidWinsOnlyIfDeclaredLater ==
    (Answered /\ InstanceQuery)
    => \A i \in Matching :
         /\ (userRules[i].inverted
             /\ ~\E j \in Matching : j > i /\ ~userRules[j].inverted) => answer = "false"
         /\ (~userRules[i].inverted
             /\ ~\E j \in Matching : j > i /\ userRules[j].inverted) => answer = "true"
\* [forbid delete Post where authorId = 9, grant delete Post] allowed a post of author 9
C5_Witness ==
    /\ userRules = <<Rule("delete", "Post", OneCondition("authorId", Num(9)), NoFields, TRUE),
                     Rule("delete", "Post", NoConditions, NoFields, FALSE)>>
    /\ InstanceQuery /\ query.action = "delete"
    /\ Get(query.subject.obj, "authorId") = Num(9)
    /\ answer = "true"

\* positions of the rules whose action and subject match the query
Named == {i \in 1..Len(userRules) : NamesMatch(userRules[i])}
Coarse == {i \in Named : ~(userRules[i].inverted /\ userRules[i].conditions.has)}
C7_FieldsRestrictEveryRule ==
    (Answered /\ query.field.kind = "name")
    => \A i \in 1..Len(userRules) :
         (/\ userRules[i].fields.has
          /\ query.field.name \notin userRules[i].fields.names
          /\ CanOutcome(Without(userRules, i), userCtx, query) # "throws")
         => answer = CanOutcome(Without(userRules, i), userCtx, query)

\* the rule has a placeholder, under field k, whose name the context does not have
Unresolved(rule, k) ==
    /\ rule.conditions.has
    /\ IsTemplate(rule.conditions.map[k])
    /\ rule.conditions.map[k] # NoKey
    /\ Slice2(rule.conditions.map[k].s) \notin {<<key>> : key \in DOMAIN userCtx}
NoEmptyFields ==
    \A i \in 1..Len(userRules) : ~(userRules[i].fields.has /\ userRules[i].fields.names = {})
\* C17: an ability check never throws: for every rule list and every action, subject
\* and instance, passed as the subject or, the way deletePost passes the post, as
\* the third argument, the call returns a boolean, and it returns false when no
\* rule of the list names the action and the subject.
C17_CheckNeverThrows ==
    (answer # "none" /\ NoEmptyFields)
    => /\ answer \in {"true", "false"}
       /\ Named = {} => answer = "false"

(***************************************************************************)
(* interpolateConditions on drawn inputs.                                  *)
(***************************************************************************)
\* the most braces drawn on either side of a string, and the most blanks drawn
\* before it and on either side of its name
MaxBraces == 2
MaxPad == 1

RECURSIVE Repeat(_, _)
Repeat(piece, n) == IF n = 0 THEN <<>> ELSE <<piece>> \o Repeat(piece, n - 1)

\* the names written between braces: the context's key, another name, none
Names == {<<"userId">>, <<"missingKey">>, <<>>}

\* strings such as "userId", "{{userId}}", "{{ userId }}", " {{userId}}", "{userId}}"
Strings ==
    {Repeat(" ", l) \o Repeat("{", o) \o Repeat(" ", a) \o name
        \o Repeat(" ", b) \o Repeat("}", c) :
     l \in 0..MaxPad, o \in 0..MaxBraces, a \in 0..MaxPad, name \in Names,
     b \in 0..MaxPad, c \in 0..MaxBraces}

ConditionValues == {Num(7)} \cup {Str(s) : s \in Strings}
SecondValues == {Num(7), Template("userId"), Template("missingKey"),
                 Obj(Open \o <<"userId">> \o Close)}

\* absent conditions (undefined, null), {}, {authorId: v} and {authorId: v, title: w}
ConditionInputs ==
    {NoConditions, NullConditions, Conditions(EmptyMap)}
    \cup {OneCondition("authorId", v) : v \in ConditionValues}
    \cup {Conditions([k \in PostFields |->
                        CASE k = "authorId" -> v [] k = "title" -> w [] OTHER -> NoKey]) :
          v \in ConditionValues, w \in SecondValues}

\* contexts: {userId: number} as the handlers build it, and string-valued ones
ContextInputs ==
    {[userId |-> v] :
        v \in {Num(7), Str(<<"userId">>), Template("userId"), Template("missingKey")}}

InitInterpolate ==
    /\ conditions \in ConditionInputs
    /\ context \in ContextInputs
    /\ once = NoConditions
    /\ twice = NoConditions
    /\ ipc = "input"
    /\ IdleServer
    /\ IdleAbility
    /\ IdleFrontend
    /\ IdleExtract
    /\ IdleSchema

\* result = interpolateConditions(conditions, context)
InterpolateOnce ==
    /\ ipc = "input"
    /\ once' = interpolateConditions(conditions, context)
    /\ ipc' = "once"
    /\ UNCHANGED <<conditions, context, twice>>
    /\ UNCHANGED serverVars
    /\ UNCHANGED frontend
    /\ UNCHANGED extractVars
    /\ UNCHANGED schemaVars
    /\ UNCHANGED abilityVars

\* interpolateConditions applied to its own result, with the same context
InterpolateAgain ==
    /\ ipc = "once"
    /\ twice' = interpolateConditions(once, context)
    /\ ipc' = "twice"
    /\ UNCHANGED <<conditions, context, once>>
    /\ UNCHANGED serverVars
    /\ UNCHANGED frontend
    /\ UNCHANGED extractVars
    /\ UNCHANGED schemaVars
    /\ UNCHANGED abilityVars

NextInterpolate == InterpolateOnce \/ InterpolateAgain

SpecInterpolate == InitInterpolate /\ [][NextInterpolate]_vars

(***************************************************************************)
(* Claims about interpolateConditions, checked under SpecInterpolate.      *)
(***************************************************************************)
\* the value is a string "{{" inner "}}"
Braced(value, inner) == value.t = "str" /\ value.s = Open \o inner \o Close
\* the context's value under the name written as `text`, undefined if it has none
Lookup(text) ==
    IF \E key \in DOMAIN context : text = <<key>>
    THEN context[CHOOSE key \in DOMAIN context : text = <<key>>]
    ELSE Undefined
\* the texts that may stand between the braces
InnerTexts == {Repeat(" ", a) \o name \o Repeat(" ", b) :
               a \in 0..MaxPad, name \in Names, b \in 0..MaxPad}
\* `text` without the blanks around its name
Trimmed(text) == CHOOSE name \in Names : \E a, b \in 0..MaxPad :
                    text = Repeat(" ", a) \o name \o Repeat(" ", b)

\* C8 as stated: every top-level "{{<name>}}" is replaced by context[name], name
\* being the trimmed inner text, so "{{ userId }}" resolves like "{{userId}}".
C8_TemplateResolvesTrimmed ==
    ipc # "input"
    => \A k \in Keys(conditions.map) : \A inner \in InnerTexts :
         Braced(conditions.map[k], inner) => once.map[k] = Lookup(Trimmed(inner))
\* C8, amended: every top-level "{{<name>}}" is replaced by context[name], name
\* being the inner text exactly as written: "{{userId}}" resolves to the context's
\* userId, "{{ userId }}" to undefined.
C8_TemplateResolvesExactInnerText ==
    ipc # "input"
    => \A k \in Keys(conditions.map) : \A inner \in InnerTexts :
         Braced(conditions.map[k], inner) => once.map[k] = Lookup(inner)
\* {authorId: "{{ userId }}"} with {userId: 7} gave {authorId: undefined}
C8_WitnessBlanks ==
    /\ ipc = "once"
    /\ conditions = OneCondition("authorId", Str(Open \o <<" ", "userId", " ">> \o Close))
    /\ context = [userId |-> Num(7)]
    /\ once = OneCondition("authorId", Undefined)

\* C10 as stated: interpolating twice gives what interpolating once gives, for every
\* conditions map and every context, string-valued contexts included.
C10_Idempotent ==
    ipc = "twice" => twice = once
\* no value of the context is itself a "{{...}}" string
ContextHoldsNoTemplate == \A key \in DOMAIN context : ~IsTemplate(context[key])
\* C10, amended: interpolating twice gives what interpolating once gives whenever no
\* value of the context is itself a "{{...}}" string (numbers, as in the handlers'
\* {userId}, and other strings).
C10_IdempotentUnlessContextHoldsTemplate ==
    (ipc = "twice" /\ ContextHoldsNoTemplate) => twice = once
\* a map with two placeholders was interpolated twice under {userId: 7}
C10_Witness ==
    /\ ipc = "twice"
    /\ context = [userId |-> Num(7)]
    /\ conditions.map["authorId"] = Template("userId")
    /\ conditions.map["title"] = Template("userId")
    /\ once.map["authorId"] = Num(7)
    /\ twice = once

\* the value is a string that starts with "{{" and ends with "}}"
TemplateString(value) ==
    value.t = "str" /\ Len(value.s) >= 4
    /\ SubSeq(value.s, 1, 2) = Open /\ SubSeq(value.s, Len(value.s) - 1, Len(value.s)) = Close
\* C11: interpolation changes nothing but top-level template strings: absent
\* conditions (undefined, null) come back as the same absent value, the result has
\* the keys of the input, and every top-level value that is not a "{{...}}" string,
\* a nested object that holds a placeholder included, comes back unchanged.
C11_OnlyTopLevelTemplatesChange ==
    ipc # "input"
    => /\ ~conditions.has => once = conditions
       /\ conditions.has
            => /\ once.has
               /\ Keys(once.map) = Keys(conditions.map)
               /\ \A k \in Keys(conditions.map) :
                     ~TemplateString(conditions.map[k]) => once.map[k] = conditions.map[k]
\* {authorId: "{{userId}}", title: {$eq: "{{userId}}"}} with {userId: 7} gave
\* {authorId: 7, title: {$eq: "{{userId}}"}}
C11_Witness ==
    /\ ipc = "once"
    /\ context = [userId |-> Num(7)]
    /\ conditions.has
    /\ conditions.map["authorId"] = Template("userId")
    /\ conditions.map["title"] = Obj(Open \o <<"userId">> \o Close)
    /\ once.map["authorId"] = Num(7)
    /\ once.map["title"] = Obj(Open \o <<"userId">> \o Close)

(***************************************************************************)
(* The backend: the tables, the preHandler hook and the route handlers.    *)
(***************************************************************************)
\* the rows of the User table (the seed's Alice and Bob)
Users == {1, 2}

\* JSON.parse(JSON.stringify(policy)): a member whose value is undefined is dropped
JsonValue(map) == [k \in DOMAIN map |-> IF map[k] = Undefined THEN NoKey ELSE map[k]]
JsonRule(rule) ==
    [rule EXCEPT !.conditions =
        IF rule.conditions.has THEN Conditions(JsonValue(rule.conditions.map))
        ELSE rule.conditions]
JsonRoundTrip(policy) == [i \in 1..Len(policy) |-> JsonRule(policy[i])]

\* a PolicyConfig, the argument of withPolicy (description left out: it goes to the
\* route's texts only)
PolicyConfig(actions, subjects, conds, fields, inverted, reason) ==
    [actions |-> actions, subjects |-> subjects, conditions |-> conds,
     fields |-> fields, inverted |-> inverted, reason |-> reason]

\* a route of a contract: with the __policy withPolicy gave it, or without one
PlainRoute == [has |-> FALSE, policy |-> Rule(NoName, NoName, NoConditions, NoFields, FALSE)]
\* withPolicy(config)(route): __policy holds action, subject and every truthy member
\* among conditions, fields, inverted and reason
withPolicy(config) ==
    [has |-> TRUE,
     policy |-> [action |-> config.actions, subject |-> config.subjects,
                 conditions |-> IF config.conditions.has THEN config.conditions
                                ELSE NoConditions,
                 fields |-> config.fields,
                 inverted |-> config.inverted,
                 reason |-> config.reason]]

\* the rule extractAbilityRules pushes for a route's __policy
GeneratedRule(policy) ==
    Rule(policy.action, policy.subject, policy.conditions, NoFields, FALSE)

\* traverse(router): the routes of one router, in key order
RECURSIVE TraverseRouter(_)
TraverseRouter(routes) ==
    IF routes = <<>> THEN <<>>
    ELSE (IF Head(routes).has THEN <<GeneratedRule(Head(routes).policy)>> ELSE <<>>)
         \o TraverseRouter(Tail(routes))
\* extractAbilityRules(contract): the routers of the contract, in key order
RECURSIVE extractAbilityRules(_)
extractAbilityRules(contract) ==
    IF contract = <<>> THEN <<>>
    ELSE TraverseRouter(Head(contract)) \o extractAbilityRules(Tail(contract))
\* generateAppRulesJSON writes the rules as JSON; app-rules.ts reads them back
GeneratedRules(contract) == JsonRoundTrip(extractAbilityRules(contract))

\* the contracts: viewPosts, createPost, deletePost; getUserPolicy, updateUserPolicy,
\* getAppPolicySchema
postsContract ==
    << withPolicy(PolicyConfig("read", "Post", NoConditions, NoFields, FALSE, "")),
       withPolicy(PolicyConfig("create", "Post", NoConditions, NoFields, FALSE, "")),
       withPolicy(PolicyConfig("delete", "Post",
                               OneCondition("authorId", Template("userId")),
                               NoFields, FALSE, "")) >>
policyContract == <<PlainRoute, PlainRoute, PlainRoute>>
appContract == <<postsContract, policyContract>>

\* APP_ABILITY_RULES: the rules generated from appContract
APP_ABILITY_RULES == GeneratedRules(appContract)

\* [...new Set(names)]: the names in the order of their first occurrence
RECURSIVE UniqueNames(_)
UniqueNames(names) ==
    IF names = <<>> THEN <<>>
    ELSE LET front == UniqueNames(SubSeq(names, 1, Len(names) - 1))
             last == names[Len(names)]
         IN  IF \E i \in 1..Len(front) : front[i] = last THEN front
             ELSE Append(front, last)
\* SUBJECTS: the subjects of the generated rules
SUBJECTS == UniqueNames([i \in 1..Len(APP_ABILITY_RULES) |-> APP_ABILITY_RULES[i].subject])
\* the filter of getAppPolicySchema: the rules of one subject
RECURSIVE SubjectRules(_, _)
SubjectRules(rules, subject) ==
    IF rules = <<>> THEN <<>>
    ELSE (IF Head(rules).subject = subject THEN <<Head(rules)>> ELSE <<>>)
         \o SubjectRules(Tail(rules), subject)
\* the body of getAppPolicySchema's answer: schemaRecord, entry by entry
SchemaRecord ==
    [k \in 1..Len(SUBJECTS) |->
        LET subjectRules == SubjectRules(appRules, SUBJECTS[k])
        IN  [subject |-> SUBJECTS[k],
             actions |-> UniqueNames([i \in 1..Len(subjectRules) |-> subjectRules[i].action]),
             permissions |-> subjectRules]]

\* no row of UserPolicies for the user
NoPolicy == [has |-> FALSE, rules |-> <<>>]

\* a Post row
PostRow(id, authorId) == [id |-> id, authorId |-> authorId]
\* the row as the object findUnique returns
RowObject(row) == PostObject(row.id, row.authorId)

\* the user-id header: absent, or a string of characters
NoHeader == [has |-> FALSE, s |-> <<>>]
Header(s) == [has |-> TRUE, s |-> s]
Digits == {"0", "1", "2", "3", "4", "5", "6", "7", "8", "9"}
DigitValue(d) ==
    CASE d = "0" -> 0 [] d = "1" -> 1 [] d = "2" -> 2 [] d = "3" -> 3 [] d = "4" -> 4
      [] d = "5" -> 5 [] d = "6" -> 6 [] d = "7" -> 7 [] d = "8" -> 8 [] OTHER -> 9
\* the number the leading digits of s spell, after the digits already read as acc
RECURSIVE LeadingDigits(_, _)
LeadingDigits(s, acc) ==
    IF Len(s) > 0 /\ s[1] \in Digits
    THEN LeadingDigits(Tail(s), 10 * acc + DigitValue(s[1]))
    ELSE acc
\* parseInt(header) || 2
UserIdOfOrTwo(header) ==
    IF header.has /\ Len(header.s) > 0 /\ header.s[1] \in Digits
          /\ LeadingDigits(header.s, 0) # 0
    THEN LeadingDigits(header.s, 0)
    ELSE 2
\* parseInt(header) || 1: NaN (no header, no leading digit) and 0 both give 1
UserIdOf(header) ==
    IF header.has /\ Len(header.s) > 0 /\ header.s[1] \in Digits
          /\ LeadingDigits(header.s, 0) # 0
    THEN LeadingDigits(header.s, 0)
    ELSE 1

\* a lookup that appends the default rules to the stored ones
getUserAbilityRulesMerged(userId) ==
    IF policies[userId].has THEN policies[userId].rules \o appRules
    ELSE appRules
\* getUserAbilityRules(userId): the stored policy, or the default rules
getUserAbilityRules(userId) ==
    IF policies[userId].has THEN policies[userId].rules ELSE appRules

\* the preHandler hook: request.ability
RequestAbility(userId) ==
    createAppAbility(getUserAbilityRules(userId), [userId |-> Num(userId)])
\* the shared array after the preHandler hook: a stored policy is parsed into a new
\* list, without one the shared array itself is handed to createAppAbility
PreHandler(userId) ==
    appRules' = IF policies[userId].has THEN appRules
                ELSE RulesAfterCreateAppAbility(appRules, [userId |-> Num(userId)])
\* request.headers["user-id"] of the request being handled
Received(header) ==
    lastHeader' = IF lastHeader.traced
                  THEN [traced |-> TRUE, has |-> header.has, s |-> header.s]
                  ELSE lastHeader

\* the body schema of updateUserPolicy: action and subject are strings (the empty
\* string is one), conditions is a record or is not there (null is neither)
BodyIsValid(policy) ==
    \A i \in 1..Len(policy) :
        /\ policy[i].action # NoName
        /\ policy[i].subject # NoName
        /\ ~policy[i].conditions.nul
\* the body schema of updateUserPolicy keeps action, subject and conditions of a rule
ParsedRule(rule) == Rule(rule.action, rule.subject, rule.conditions, NoFields, FALSE)
ParsedPolicy(policy) == [i \in 1..Len(policy) |-> ParsedRule(policy[i])]

\* the status updateUserPolicy answers with
UpdateStatus(userId, policy) ==
    IF ~RequestAbility(userId).ok THEN 500
    ELSE IF ~BodyIsValid(policy) THEN 400
    ELSE 200
\* an update that creates the user's row and leaves a row that exists as it is
PoliciesAfterUpdateCreateOnly(userId, policy) ==
    IF UpdateStatus(userId, policy) = 200 /\ ~policies[userId].has
    THEN [policies EXCEPT ![userId] =
             [has |-> TRUE, rules |-> JsonRoundTrip(ParsedPolicy(policy))]]
    ELSE policies
\* the table UserPolicies after updateUserPolicy: the upsert of the parsed body
PoliciesAfterUpdate(userId, policy) ==
    IF UpdateStatus(userId, policy) = 200
    THEN [policies EXCEPT ![userId] =
             [has |-> TRUE, rules |-> JsonRoundTrip(ParsedPolicy(policy))]]
    ELSE policies

\* the most posts ever created (the cap of the AUTOINCREMENT counter)
MaxPosts == 2

\* the user-id headers sent: none, and those of the two users
Headers == {NoHeader, Header(<<"1">>), Header(<<"2">>)}

\* the policies sent to updateUserPolicy
PolicyBodies ==
    { <<>>,
      APP_ABILITY_RULES,
      <<Rule("delete", "Post", NoConditions, NoFields, FALSE)>>,
      <<Rule("read", "Post", NoConditions, NoFields, FALSE),
        Rule("delete", "all", OneCondition("authorId", Template("userId")), NoFields, FALSE)>>,
      <<Rule("create", "Post", NoConditions, NoFields, FALSE),
        WithReason(Rule("create", "Post", NoConditions, FieldList({"title"}), TRUE),
                   "titles are kept")>>,
      <<Rule("read", "Post", NoConditions, NoFields, FALSE),
        Rule("delete", NoName, NoConditions, NoFields, FALSE)>>,
      <<Rule("", "Post", NoConditions, NoFields, FALSE)>> }

\* a request and its response; sent is the policy of the request's body, policy and
\* posts are the lists of the response's body
Response(op, userId, postId, status) ==
    [op |-> op, userId |-> userId, postId |-> postId, status |-> status,
     sent |-> <<>>, policy |-> <<>>, posts |-> {}]

Init ==
    /\ posts = {}
    /\ nextId = 1
    /\ policies = [u \in Users |-> NoPolicy]
    /\ appRules = APP_ABILITY_RULES
    /\ lastHeader = Untraced
    /\ resp = Response("none", 0, 0, 0)
    /\ IdleInterp
    /\ IdleAbility
    /\ IdleFrontend
    /\ IdleExtract
    /\ IdleSchema

\* the status of a request whose preHandler threw, or 0 if it did not
HookFailure(userId) == IF RequestAbility(userId).ok THEN 0 ELSE 500

\* what viewPosts answers to a request of the user: every post, or none when the
\* ability has no 'read' on Post
ViewPostsResponse(userId) ==
    LET allowed == Can(RequestAbility(userId), "read", SubjectType("Post"), NoField)
    IN  IF HookFailure(userId) # 0
        THEN Response("viewPosts", userId, 0, 500)
        ELSE [Response("viewPosts", userId, 0, 200)
                 EXCEPT !.posts = IF allowed = "true" THEN posts ELSE {}]

\* what getUserPolicy answers to a request of the user
GetUserPolicyResponse(userId) ==
    IF HookFailure(userId) # 0
    THEN Response("getUserPolicy", userId, 0, 500)
    ELSE [Response("getUserPolicy", userId, 0, 200)
             EXCEPT !.policy = getUserAbilityRules(userId)]

\* GET /posts
\* (every handler is taken for the seeded users only: UserPolicies.userId and
\* Post.authorId are foreign keys into User, so the rows below exist for them alone)
ViewPosts(header) ==
    LET userId == UserIdOf(header)
    IN  /\ userId \in Users
        /\ PreHandler(userId)
        /\ Received(header)
        /\ resp' = ViewPostsResponse(userId)
        /\ UNCHANGED <<posts, nextId, policies>>
        /\ UNCHANGED interpVars
        /\ UNCHANGED frontend
        /\ UNCHANGED extractVars
        /\ UNCHANGED schemaVars
        /\ UNCHANGED abilityVars

\* POST /posts
CreatePost(header) ==
    LET userId == UserIdOf(header)
        allowed == Can(RequestAbility(userId), "create", SubjectType("Post"), NoField)
    IN  /\ userId \in Users
        /\ PreHandler(userId)
        /\ Received(header)
        /\ nextId <= MaxPosts
        /\ IF HookFailure(userId) # 0
           THEN /\ resp' = Response("createPost", userId, 0, 500)
                /\ UNCHANGED <<posts, nextId>>
           ELSE IF allowed # "true"
           THEN /\ resp' = Response("createPost", userId, 0, 403)
                /\ UNCHANGED <<posts, nextId>>
           ELSE /\ posts' = posts \cup {PostRow(nextId, userId)}
                /\ nextId' = nextId + 1
                /\ resp' = Response("createPost", userId, nextId, 201)
        /\ UNCHANGED policies
        /\ UNCHANGED interpVars
        /\ UNCHANGED frontend
        /\ UNCHANGED extractVars
        /\ UNCHANGED schemaVars
        /\ UNCHANGED abilityVars

\* a deletePost that asks its ability before it looks for the row
DeleteOutcomeCheckFirst(userId, postId, check) ==
    IF HookFailure(userId) # 0 \/ check = "throws"
    THEN /\ resp' = Response("deletePost", userId, postId, 500)
         /\ UNCHANGED posts
    ELSE IF check = "false"
    THEN /\ resp' = Response("deletePost", userId, postId, 403)
         /\ UNCHANGED posts
    ELSE IF ~\E row \in posts : row.id = postId
    THEN /\ resp' = Response("deletePost", userId, postId, 404)
         /\ UNCHANGED posts
    ELSE /\ posts' = {row \in posts : row.id # postId}
         /\ resp' = Response("deletePost", userId, postId, 200)
\* what deletePost does with the answer of its ability check
DeleteOutcome(userId, postId, check) ==
    IF HookFailure(userId) # 0
    THEN /\ resp' = Response("deletePost", userId, postId, 500)
         /\ UNCHANGED posts
    ELSE IF ~\E row \in posts : row.id = postId
    THEN /\ resp' = Response("deletePost", userId, postId, 404)
         /\ UNCHANGED posts
    ELSE IF check = "throws"
    THEN /\ resp' = Response("deletePost", userId, postId, 500)
         /\ UNCHANGED posts
    ELSE IF check = "false"
    THEN /\ resp' = Response("deletePost", userId, postId, 403)
         /\ UNCHANGED posts
    ELSE /\ posts' = {row \in posts : row.id # postId}
         /\ resp' = Response("deletePost", userId, postId, 200)

\* the row findUnique returns (any row when there is none: the check is not reached)
FoundRow(postId) ==
    IF \E row \in posts : row.id = postId
    THEN CHOOSE row \in posts : row.id = postId
    ELSE PostRow(0, 0)

\* the check of the server's deletePost: ability.can("delete", "Post", post), the
\* row in the place of the field name
DeleteCheck(userId, postId) ==
    Can(RequestAbility(userId), "delete", SubjectType("Post"), FieldObject)

\* the check of the serverless deletePost:
\* ability.can("delete", { ...post, __typename: "Post" })
DeleteCheckServerless(userId, postId) ==
    Can(RequestAbility(userId), "delete", PlainObject(RowObject(FoundRow(postId))), NoField)

\* DELETE /posts/:id, the server
DeletePost(header, postId) ==
    LET userId == UserIdOf(header)
    IN  /\ userId \in Users
        /\ PreHandler(userId)
        /\ Received(header)
        /\ DeleteOutcome(userId, postId, DeleteCheck(userId, postId))
        /\ UNCHANGED <<nextId, policies>>
        /\ UNCHANGED interpVars
        /\ UNCHANGED frontend
        /\ UNCHANGED extractVars
        /\ UNCHANGED schemaVars
        /\ UNCHANGED abilityVars

\* DELETE /posts/:id, the serverless handler
DeletePostServerless(header, postId) ==
    LET userId == UserIdOf(header)
    IN  /\ userId \in Users
        /\ PreHandler(userId)
        /\ Received(header)
        /\ DeleteOutcome(userId, postId, DeleteCheckServerless(userId, postId))
        /\ UNCHANGED <<nextId, policies>>
        /\ UNCHANGED interpVars
        /\ UNCHANGED frontend
        /\ UNCHANGED extractVars
        /\ UNCHANGED schemaVars
        /\ UNCHANGED abilityVars

\* GET /policy/user
GetUserPolicy(header) ==
    LET userId == UserIdOf(header)
    IN  /\ userId \in Users
        /\ PreHandler(userId)
        /\ Received(header)
        /\ resp' = GetUserPolicyResponse(userId)
        /\ UNCHANGED <<posts, nextId, policies>>
        /\ UNCHANGED interpVars
        /\ UNCHANGED frontend
        /\ UNCHANGED extractVars
        /\ UNCHANGED schemaVars
        /\ UNCHANGED abilityVars

\* PUT /policy/user
UpdateUserPolicy(header, policy) ==
    LET userId == UserIdOf(header)
    IN  /\ userId \in Users
        /\ PreHandler(userId)
        /\ Received(header)
        /\ policies' = PoliciesAfterUpdate(userId, policy)
        /\ resp' = [Response("updateUserPolicy", userId, 0, UpdateStatus(userId, policy))
                       EXCEPT !.sent = policy]
        /\ UNCHANGED <<posts, nextId>>
        /\ UNCHANGED interpVars
        /\ UNCHANGED frontend
        /\ UNCHANGED extractVars
        /\ UNCHANGED schemaVars
        /\ UNCHANGED abilityVars

Next ==
    \E header \in Headers :
        \/ ViewPosts(header)
        \/ CreatePost(header)
        \/ \E postId \in 1..MaxPosts + 1 : DeletePost(header, postId)
        \/ \E postId \in 1..MaxPosts + 1 : DeletePostServerless(header, postId)
        \/ GetUserPolicy(header)
        \/ \E policy \in PolicyBodies : UpdateUserPolicy(header, policy)

Spec == Init /\ [][Next]_vars

\* the server with the header of the last request kept: the headers that parseInt
\* turns into NaN or 0 next to the header of user 2, and three policies
FallbackHeaders == {NoHeader, Header(<<"a", "b", "c">>), Header(<<>>), Header(<<"0">>),
                    Header(<<"0", "0">>), Header(<<"2">>)}
FallbackBodies ==
    { <<>>,
      <<Rule("read", "Post", NoConditions, NoFields, FALSE)>>,
      <<Rule("create", "Post", NoConditions, NoFields, FALSE),
        Rule("delete", "all", OneCondition("authorId", Template("userId")), NoFields, FALSE)>> }

InitFallback ==
    /\ posts = {}
    /\ nextId = 1
    /\ policies = [u \in Users |-> NoPolicy]
    /\ appRules = APP_ABILITY_RULES
    /\ lastHeader = [traced |-> TRUE, has |-> FALSE, s |-> <<>>]
    /\ resp = Response("none", 0, 0, 0)
    /\ IdleInterp
    /\ IdleAbility
    /\ IdleFrontend
    /\ IdleExtract
    /\ IdleSchema

NextFallback ==
    \E header \in FallbackHeaders :
        \/ ViewPosts(header)
        \/ CreatePost(header)
        \/ \E postId \in 1..MaxPosts + 1 : DeletePost(header, postId)
        \/ \E postId \in 1..MaxPosts + 1 : DeletePostServerless(header, postId)
        \/ GetUserPolicy(header)
        \/ \E policy \in FallbackBodies : UpdateUserPolicy(header, policy)

SpecFallback == InitFallback /\ [][NextFallback]_vars

(***************************************************************************)
(* Claims about deletePost, checked under Spec.                            *)
(***************************************************************************)
\* the requester's current rules, interpolated with {userId}, grant 'delete' on the
\* row as a Post (evaluated in the state the request arrives in)
GrantsDelete(userId, row) ==
    Can(RequestAbility(userId), "delete", SubjectInstance("Post", RowObject(row)), NoField)
        = "true"

\* C1: deletePost removes an existing post only if the requester's current rules
\* grant 'delete' on that post (under the default rules: only the author's own
\* post); in every other case it answers 403 and the post stays in the store.
C1_DeleteOnlyIfGrantedElse403 ==
    [][\A row \in posts :
          (resp'.op = "deletePost" /\ resp'.postId = row.id)
          => /\ row \notin posts' => GrantsDelete(resp'.userId, row)
             /\ (row \notin posts' /\ ~policies[resp'.userId].has)
                   => row.authorId = resp'.userId
             /\ ~GrantsDelete(resp'.userId, row)
                   => (resp'.status = 403 /\ row \in posts')]_vars

\* C2: under the default rules, deletePost by the author of an existing post answers
\* 200 (success) and the post is gone from the store.
C2_AuthorDeletesOwnPost ==
    [][\A row \in posts :
          (/\ resp'.op = "deletePost" /\ resp'.postId = row.id
           /\ ~policies[resp'.userId].has
           /\ row.authorId = resp'.userId)
          => (resp'.status = 200 /\ row \notin posts')]_vars

(***************************************************************************)
(* Claims about the stored policies and the policy routes, under Spec.     *)
(***************************************************************************)
\* the name is there and is not the empty string
Named1(name) == name # NoName /\ name # ""
\* C13: in every reachable state every rule of every stored policy has a present,
\* non-empty action and subject (updateUserPolicy rejects, as a whole, a list that
\* holds a rule with a missing or empty action or subject).
C13_StoredRulesHaveActionAndSubject ==
    \A u \in Users :
        policies[u].has
        => \A i \in 1..Len(policies[u].rules) :
             Named1(policies[u].rules[i].action) /\ Named1(policies[u].rules[i].subject)

\* C14: storing and reading back is lossless: a getUserPolicy that follows a
\* successful updateUserPolicy of the same user with list P returns P, equal in
\* order and in action, subject, conditions, fields, inverted and reason.
C14_RoundTripLossless ==
    [][(/\ resp.op = "updateUserPolicy" /\ resp.status = 200
        /\ resp'.op = "getUserPolicy" /\ resp'.status = 200
        /\ resp'.userId = resp.userId)
       => resp'.policy = resp.sent]_vars

\* the rules the contracts declare, in declaration order
DeclaredRules ==
    << Rule("read", "Post", NoConditions, NoFields, FALSE),
       Rule("create", "Post", NoConditions, NoFields, FALSE),
       Rule("delete", "Post", OneCondition("authorId", Template("userId")), NoFields, FALSE) >>
\* the stored list of the user if there is one, else the declared rules
RulesInForce(u) == IF policies[u].has THEN policies[u].rules ELSE DeclaredRules
\* createAppAbility over the rules in force grants the action on Post
InForceGrants(u, action) ==
    CanOutcome(RulesInForce(u), [userId |-> Num(u)],
               [action |-> action, subject |-> SubjectType("Post"), field |-> NoField])
        = "true"
\* C15: a user without a stored policy is shown by getUserPolicy, and is authorized
\* by createPost and viewPosts against, exactly the declared rules in declaration
\* order; a user with a stored policy, exactly the stored list.
C15_DefaultRulesUnlessStored ==
    [][/\ (resp'.op = "getUserPolicy" /\ resp'.status = 200)
            => resp'.policy = RulesInForce(resp'.userId)
       /\ resp'.op = "createPost"
            => (resp'.status = 201 <=> InForceGrants(resp'.userId, "create"))
       /\ (resp'.op = "viewPosts" /\ resp'.status = 200)
            => resp'.posts = IF InForceGrants(resp'.userId, "read") THEN posts ELSE {}]_vars
\* getUserPolicy showed a user without a stored policy the three declared rules
C15_Witness ==
    /\ resp.op = "getUserPolicy" /\ resp.status = 200
    /\ ~policies[resp.userId].has
    /\ resp.policy = DeclaredRules

\* the requester's current rules, interpolated with {userId}, grant the action on Post
Grants(userId, action) ==
    Can(RequestAbility(userId), action, SubjectType("Post"), NoField) = "true"
ResolvedFor(rule, u) ==
    [rule EXCEPT !.conditions = interpolateConditions(rule.conditions, [userId |-> Num(u)])]
\* C19: getUserPolicy returns the requester's rules with the placeholders of their
\* conditions resolved against the requester: {authorId: "{{userId}}"} is returned
\* to user u as {authorId: u}.
C19_PolicyReturnedInterpolated ==
    (resp.op = "getUserPolicy" /\ resp.status = 200)
    => /\ Len(resp.policy) = Len(getUserAbilityRules(resp.userId))
       /\ \A i \in 1..Len(resp.policy) :
            resp.policy[i] = ResolvedFor(getUserAbilityRules(resp.userId)[i], resp.userId)

(***************************************************************************)
(* The frontend: App's state, loadData and the gated affordances.          *)
(***************************************************************************)
\* userId.toString()
DigitChar(d) ==
    CASE d = 0 -> "0" [] d = 1 -> "1" [] d = 2 -> "2" [] d = 3 -> "3" [] d = 4 -> "4"
      [] d = 5 -> "5" [] d = 6 -> "6" [] d = 7 -> "7" [] d = 8 -> "8" [] OTHER -> "9"
RECURSIVE NumberToString(_)
NumberToString(n) ==
    IF n < 10 THEN <<DigitChar(n)>> ELSE NumberToString(n \div 10) \o <<DigitChar(n % 10)>>
\* createClient(userId): the user-id header of every request of the client
ClientHeader(userId) == Header(NumberToString(userId))

\* loadData(): viewPosts, getUserPolicy and getAppPolicySchema with the current
\* user's header; a member of the state is replaced when its response has status 200
LoadedState(userId) ==
    LET requester == UserIdOf(ClientHeader(userId))
        postsRes == ViewPostsResponse(requester)
        policyRes == GetUserPolicyResponse(requester)
        schemaStatus == IF HookFailure(requester) # 0 THEN 500 ELSE 200
    IN  [loaded |-> TRUE,
         userId |-> userId,
         userRules |-> IF policyRes.status = 200 THEN policyRes.policy
                       ELSE frontend.userRules,
         posts |-> IF postsRes.status = 200 THEN postsRes.posts ELSE frontend.posts,
         appSchema |-> IF schemaStatus = 200 THEN SchemaRecord ELSE frontend.appSchema,
         request |-> frontend.request,
         toggles |-> frontend.toggles]

\* the effect that runs loadData() when App mounts
LoadData ==
    /\ ~frontend.loaded
    /\ frontend' = LoadedState(frontend.userId)
    /\ UNCHANGED serverVars
    /\ UNCHANGED interpVars
    /\ UNCHANGED abilityVars
    /\ UNCHANGED extractVars
    /\ UNCHANGED schemaVars

\* switchUser(userId): setCurrentUserId, and the effect on currentUserId that runs
\* loadData() for the new user
SwitchUser(userId) ==
    /\ userId # frontend.userId
    /\ frontend' = LoadedState(userId)
    /\ UNCHANGED serverVars
    /\ UNCHANGED interpVars
    /\ UNCHANGED abilityVars
    /\ UNCHANGED extractVars
    /\ UNCHANGED schemaVars

\* the most clicks on the checkboxes of PolicyEditor in one run
MaxToggles == 2

\* cleanRules of the frontend's updateUserPolicy: action, subject and conditions
CleanRules(rules) ==
    [i \in 1..Len(rules) |-> PolicyRule(rules[i].action, rules[i].subject, rules[i].conditions)]

\* userRules.filter(rule => !(rule.subject === subject && rule.action === action))
RECURSIVE WithoutRulesFor(_, _, _)
WithoutRulesFor(rules, subject, action) ==
    IF rules = <<>> THEN <<>>
    ELSE (IF Head(rules).subject = subject /\ Head(rules).action = action
          THEN <<>> ELSE <<Head(rules)>>)
         \o WithoutRulesFor(Tail(rules), subject, action)

\* appSchema[subject]: the index of the entry, 0 when there is none
SubjectConfig(subject) == EntryIndex(frontend.appSchema, subject)
\* subjectConfig.permissions.find(p => p.action === action && p.subject === subject):
\* the index of the first such permission, 0 when there is none
FindPermission(permissions, subject, action) ==
    LET found == {i \in 1..Len(permissions) :
                     permissions[i].action = action /\ permissions[i].subject = subject}
    IN  IF found = {} THEN 0 ELSE CHOOSE i \in found : \A j \in found : i <= j

\* hasPermission of togglePermission: ability.can(action, subject)
HasPermission(subject, action) ==
    CanOutcomeFromJSON(frontend.userRules,
                       [action |-> action, subject |-> SubjectType(subject), field |-> NoField])
        = "true"

\* a toggle that appends the permission although it is held
ToggledRulesAppendOnly(subject, action) ==
    LET k == SubjectConfig(subject)
        permissions == frontend.appSchema[k].permissions
    IN  [submits |-> TRUE,
         rules |-> Append(frontend.userRules,
                          permissions[FindPermission(permissions, subject, action)])]
\* newRules of togglePermission, and whether updateUserPolicy(newRules) is called
ToggledRules(subject, action) ==
    IF HasPermission(subject, action)
    THEN [submits |-> TRUE, rules |-> WithoutRulesFor(frontend.userRules, subject, action)]
    ELSE LET k == SubjectConfig(subject)
             permissions == IF k = 0 THEN <<>> ELSE frontend.appSchema[k].permissions
             found == FindPermission(permissions, subject, action)
         IN  IF found = 0 THEN [submits |-> FALSE, rules |-> <<>>]
             ELSE [submits |-> TRUE, rules |-> Append(frontend.userRules, permissions[found])]

\* a click on the checkbox PolicyEditor renders for an action of a subject of
\* appSchema: togglePermission(subject, action), up to the request that
\* updateUserPolicy(newRules) sends with the current user's header
TogglePermission(k, a) ==
    LET subject == frontend.appSchema[k].subject
        action == frontend.appSchema[k].actions[a]
        toggled == ToggledRules(subject, action)
    IN  /\ ~frontend.request.has
        /\ frontend.toggles < MaxToggles
        /\ toggled.submits
        /\ frontend' = [frontend EXCEPT
                           !.request = [has |-> TRUE, userId |-> frontend.userId,
                                        subject |-> subject, action |-> action,
                                        rules |-> CleanRules(toggled.rules)],
                           !.toggles = @ + 1]
        /\ UNCHANGED serverVars
        /\ UNCHANGED interpVars
        /\ UNCHANGED abilityVars
        /\ UNCHANGED extractVars
        /\ UNCHANGED schemaVars

\* the server answers the request; on status 200 updateUserPolicy calls loadData()
UpdateAnswered ==
    LET requester == UserIdOf(ClientHeader(frontend.request.userId))
    IN  /\ frontend.request.has
        /\ policies' = PoliciesAfterUpdate(requester, frontend.request.rules)
        /\ PreHandler(requester)
        /\ frontend' = [frontend EXCEPT
                           !.request = NoRequest,
                           !.loaded = IF UpdateStatus(requester, frontend.request.rules) = 200
                                      THEN FALSE ELSE @]
        /\ UNCHANGED <<posts, nextId, resp, lastHeader>>
        /\ UNCHANGED interpVars
        /\ UNCHANGED abilityVars
        /\ UNCHANGED extractVars
        /\ UNCHANGED schemaVars

\* const ability = createTypedAbilityFromJSON(userRules); PermissionGate renders its
\* children when ability.can(action, subject)
PermissionGate(action, subject) ==
    CanOutcomeFromJSON(frontend.userRules,
                       [action |-> action, subject |-> SubjectType(subject), field |-> NoField])
        = "true"
\* PostCard: the Delete button, inside the gate and under post.authorId === 1
ShowsDelete(post) == PermissionGate("delete", "Post") /\ post.authorId = 1
\* CreatePostForm: the form, inside the gate
ShowsCreate == PermissionGate("create", "Post")

\* the posts in the table: the first n created, by the two users in turn
FirstPosts(n) == {PostRow(i, IF i % 2 = 1 THEN 1 ELSE 2) : i \in 1..n}
\* the policies updateUserPolicy can have stored
StoredPolicies ==
    {NoPolicy} \cup
    {[has |-> TRUE, rules |-> JsonRoundTrip(ParsedPolicy(body))] :
        body \in {b \in PolicyBodies : BodyIsValid(b)}}

InitFrontend ==
    /\ \E n \in 0..MaxPosts : posts = FirstPosts(n) /\ nextId = n + 1
    /\ policies \in [Users -> StoredPolicies]
    /\ appRules = APP_ABILITY_RULES
    /\ lastHeader = Untraced
    /\ resp = Response("none", 0, 0, 0)
    /\ frontend \in {[loaded |-> FALSE, userId |-> u, userRules |-> <<>>, posts |-> {},
                        appSchema |-> <<>>, request |-> NoRequest, toggles |-> 0] :
                          u \in Users}
    /\ IdleInterp
    /\ IdleAbility
    /\ IdleExtract
    /\ IdleSchema

NextFrontend ==
    \/ LoadData
    \/ \E userId \in Users : SwitchUser(userId)
    \/ \E k \in 1..Len(frontend.appSchema) :
           \E a \in 1..Len(frontend.appSchema[k].actions) : TogglePermission(k, a)
    \/ UpdateAnswered

SpecFrontend == InitFrontend /\ [][NextFrontend]_vars

\* C18: the frontend and the backend enforce the same rules: once the frontend has
\* loaded a user's rules and posts, it shows the Delete button of a post exactly when
\* the backend's ability (createAppAbility over the same stored rules, with
\* {userId}) grants 'delete' on that post, and the create form exactly when it
\* grants 'create' on Post.
C18_FrontendMatchesBackend ==
    frontend.loaded
    => /\ \A row \in frontend.posts :
            ShowsDelete(row) <=> GrantsDelete(frontend.userId, row)
       /\ ShowsCreate <=> Grants(frontend.userId, "create")

\* C27: togglePermission(subject, action) submits a new rule list and never
\* modifies the current one: when the permission is held the new list is the
\* current list without every rule for that (subject, action), all other rules
\* unchanged and in order; when it is not held the new list is the current list
\* with the schema's permission for that (subject, action) appended at the end.
C27_ToggleSubmitsNewList ==
    [][(~frontend.request.has /\ frontend'.request.has) =>
          LET current == frontend.userRules
              submitted == frontend'.request.rules
              subject == frontend'.request.subject
              action == frontend'.request.action
              kept == {i \in 1..Len(current) :
                          ~(current[i].subject = subject /\ current[i].action = action)}
              entry == frontend.appSchema[EntryIndex(frontend.appSchema, subject)]
          IN  /\ frontend'.userRules = current
              /\ HasPermission(subject, action) =>
                     /\ Len(submitted) = Cardinality(kept)
                     /\ \A i \in kept :
                            submitted[Cardinality({j \in kept : j <= i})] = current[i]
              /\ ~HasPermission(subject, action) =>
                     /\ Len(submitted) = Len(current) + 1
                     /\ SubSeq(submitted, 1, Len(current)) = current
                     /\ submitted[Len(submitted)].subject = subject
                     /\ submitted[Len(submitted)].action = action
                     /\ \E i \in 1..Len(entry.permissions) :
                            entry.permissions[i] = submitted[Len(submitted)]]_vars
\* a second click has taken rules out of a list and left others in it
C27_Witness ==
    /\ frontend.request.has
    /\ frontend.toggles = MaxToggles
    /\ frontend.request.rules # <<>>
    /\ Len(frontend.request.rules) < Len(frontend.userRules)

(***************************************************************************)
(* The rule generator on drawn contracts.                                  *)
(***************************************************************************)
\* the most routes of a router drawn
MaxRoutes == 2

\* the annotations drawn: a grant, a conditional grant, a forbid with a reason, a
\* grant restricted to a field
ConfigUniverse ==
    { PolicyConfig("read", "Post", NoConditions, NoFields, FALSE, ""),
      PolicyConfig("delete", "Post", OneCondition("authorId", Template("userId")),
                   NoFields, FALSE, ""),
      PolicyConfig("delete", "Post", NoConditions, NoFields, TRUE, "posts are kept"),
      PolicyConfig("read", "Post", NoConditions, FieldList({"title"}), FALSE, "") }
RouteUniverse == {PlainRoute} \cup {withPolicy(config) : config \in ConfigUniverse}
\* contracts of two routers, as appContract's {posts, policy}
Contracts ==
    {<<first, second>> : first \in SeqsUpTo(RouteUniverse, MaxRoutes),
                         second \in SeqsUpTo(RouteUniverse, MaxRoutes)}

InitExtract ==
    /\ routeTree \in Contracts
    /\ generated = [done |-> FALSE, rules |-> <<>>]
    /\ IdleServer
    /\ IdleInterp
    /\ IdleAbility
    /\ IdleFrontend
    /\ IdleSchema

\* generateAppRulesJSON() on the drawn contract
Generate ==
    /\ ~generated.done
    /\ generated' = [done |-> TRUE, rules |-> GeneratedRules(routeTree)]
    /\ UNCHANGED routeTree
    /\ UNCHANGED serverVars
    /\ UNCHANGED interpVars
    /\ UNCHANGED abilityVars
    /\ UNCHANGED frontend
    /\ UNCHANGED schemaVars

NextExtract == Generate

SpecExtract == InitExtract /\ [][NextExtract]_vars

\* the __policy annotations of the contract's routes, in declaration order
RECURSIVE AnnotationsOfRouter(_)
AnnotationsOfRouter(routes) ==
    IF routes = <<>> THEN <<>>
    ELSE (IF Head(routes).has THEN <<Head(routes).policy>> ELSE <<>>)
         \o AnnotationsOfRouter(Tail(routes))
RECURSIVE AnnotationsOf(_)
AnnotationsOf(tree) ==
    IF tree = <<>> THEN <<>>
    ELSE AnnotationsOfRouter(Head(tree)) \o AnnotationsOf(Tail(tree))
\* C20: a rule generated from a contract route keeps the full RawRule of its
\* withPolicy annotation: action, subject, conditions, fields, inverted and reason,
\* so a route declared with inverted: true yields an inverted rule.
C20_GeneratedRuleKeepsRawRule ==
    generated.done => generated.rules = AnnotationsOf(routeTree)

(***************************************************************************)
(* The schema extractor: extractAppPolicy and createDefaultUserPolicy on    *)
(* drawn route trees.                                                      *)
(***************************************************************************)
\* an array member of an annotation: there with its elements, or not there
ListOf(list) == [has |-> TRUE, list |-> list]
NoList == [has |-> FALSE, list |-> <<>>]

\* a __policy annotation.  PolicyMeta (the first withPolicy) holds the arrays
\* subjects and actions; the __policy of the later withPolicy holds the single
\* members action and subject and has no member subjects or actions
PolicyMeta(subjects, actions, conds) ==
    [subjects |-> ListOf(subjects), actions |-> ListOf(actions),
     subject |-> NoName, action |-> NoName, conditions |-> conds]
RawRulePolicy(config) ==
    [subjects |-> NoList, actions |-> NoList,
     subject |-> withPolicy(config).policy.subject,
     action |-> withPolicy(config).policy.action,
     conditions |-> withPolicy(config).policy.conditions]
NoAnnotation ==
    [subjects |-> NoList, actions |-> NoList, subject |-> NoName, action |-> NoName,
     conditions |-> NoConditions]

\* a node of the route tree: a value that is no object (a string, a number, null),
\* or an object with its members' values in Object.entries order; has says that
\* the object has the key __policy, whose value is policy
ValueNode == [kind |-> "value", has |-> FALSE, policy |-> NoAnnotation, children |-> <<>>]
ObjectNode(children) ==
    [kind |-> "object", has |-> FALSE, policy |-> NoAnnotation, children |-> children]
PolicyNode(policy, children) ==
    [kind |-> "object", has |-> TRUE, policy |-> policy, children |-> children]

\* what extractAppPolicy has accumulated: appPolicy as the sequence of its entries
\* in key insertion order, and whether a TypeError has ended the call
EmptyPolicy == [threw |-> FALSE, schema |-> <<>>]
Thrown == [threw |-> TRUE, schema |-> <<>>]

\* if (!appPolicy[subject]) appPolicy[subject] = {actions: [], permissions: []}
EnsureEntry(schema, subject) ==
    IF EntryIndex(schema, subject) = 0
    THEN Append(schema, [subject |-> subject, actions |-> <<>>, permissions |-> <<>>])
    ELSE schema

PushActionsAlways(actions, list) == actions \o list
\* the first loop over policy.actions: push the action unless actions includes it
RECURSIVE PushActions(_, _)
PushActions(actions, list) ==
    IF list = <<>> THEN actions
    ELSE PushActions(IF \E i \in 1..Len(actions) : actions[i] = Head(list)
                     THEN actions
                     ELSE Append(actions, Head(list)),
                     Tail(list))

PushPermissionsInFront(permissions, list, subject, conds) ==
    [i \in 1..Len(list) |-> PolicyRule(list[i], subject, conds)] \o permissions
\* the second loop over policy.actions: push {action, subject, conditions}
PushPermissions(permissions, list, subject, conds) ==
    permissions \o [i \in 1..Len(list) |-> PolicyRule(list[i], subject, conds)]

\* the body of the loop over policy.subjects; policy.actions that is not there
\* cannot be iterated: TypeError
AddSubject(acc, subject, policy) ==
    IF acc.threw \/ ~policy.actions.has THEN Thrown
    ELSE LET schema == EnsureEntry(acc.schema, subject)
             k == EntryIndex(schema, subject)
         IN  [threw |-> FALSE,
              schema |-> [schema EXCEPT
                  ![k].actions = PushActions(@, policy.actions.list),
                  ![k].permissions =
                      PushPermissions(@, policy.actions.list, subject, policy.conditions)]]

RECURSIVE AddSubjects(_, _, _)
AddSubjects(acc, subjects, policy) ==
    IF subjects = <<>> THEN acc
    ELSE AddSubjects(AddSubject(acc, Head(subjects), policy), Tail(subjects), policy)

\* for (const subject of policy.subjects): policy.subjects that is not there
\* cannot be iterated: TypeError
AddPolicy(acc, policy) ==
    IF acc.threw \/ ~policy.subjects.has THEN Thrown
    ELSE AddSubjects(acc, policy.subjects.list, policy)

\* traverse(obj) over the values of obj's members: a value that is no object is
\* passed over, an object with __policy adds its annotation and is not entered, any
\* other object is entered
RECURSIVE Traverse(_, _)
Traverse(acc, values) ==
    IF values = <<>> \/ acc.threw THEN acc
    ELSE LET value == Head(values)
             after == IF value.kind # "object" THEN acc
                      ELSE IF value.has THEN AddPolicy(acc, value.policy)
                      ELSE Traverse(acc, value.children)
         IN  Traverse(after, Tail(values))

\* extractAppPolicy(contract): traverse(contract) starts at the members of the
\* contract and never asks whether the contract itself has __policy; the
\* annotation of the contract is one more member, an object without __policy whose
\* own members (arrays of strings, a map of strings, a string) add nothing
extractAppPolicy(contract) == Traverse(EmptyPolicy, contract.children)

PushedRulesWithoutConditions(permissions) ==
    [i \in 1..Len(permissions) |->
        PolicyRule(permissions[i].action, permissions[i].subject, NoConditions)]
\* the inner loop of createDefaultUserPolicy: the rules pushed for one entry
PushedRules(permissions) ==
    [i \in 1..Len(permissions) |->
        PolicyRule(permissions[i].action, permissions[i].subject, permissions[i].conditions)]
\* createDefaultUserPolicy(appPolicy): every permission of every entry, in order
RECURSIVE createDefaultUserPolicy(_)
createDefaultUserPolicy(schema) ==
    IF schema = <<>> THEN <<>>
    ELSE PushedRules(Head(schema).permissions) \o createDefaultUserPolicy(Tail(schema))

\* the annotations drawn: node A and node B of the extraction example, an
\* annotation that names two subjects and two actions, and the __policy the later
\* withPolicy builds
NodeA == PolicyMeta(<<"Post">>, <<"read">>, NoConditions)
NodeB == PolicyMeta(<<"Post">>, <<"delete">>, OneCondition("authorId", Template("userId")))
NodeC == PolicyMeta(<<"User", "Post">>, <<"read", "delete">>, NoConditions)
NodeD == RawRulePolicy(PolicyConfig("read", "Post", NoConditions, NoFields, FALSE, ""))
AnnotationUniverse == {NodeA, NodeB, NodeC, NodeD}

\* the members of a router: routes with an annotation, and a value that is no object
RouterMembers == {PolicyNode(NodeA, <<>>), PolicyNode(NodeB, <<>>),
                  PolicyNode(NodeD, <<>>), ValueNode}
\* the members of a contract: routers, routes, values, an object without members,
\* and routes that have routes below them
ContractMembers ==
    {ObjectNode(members) : members \in SeqsUpTo(RouterMembers, MaxRoutes)}
    \cup {PolicyNode(policy, <<>>) : policy \in AnnotationUniverse}
    \cup {ValueNode,
          PolicyNode(NodeA, <<PolicyNode(NodeB, <<>>)>>),
          PolicyNode(NodeB, <<ObjectNode(<<PolicyNode(NodeA, <<>>)>>), ValueNode>>)}
\* the contracts: without members or with two, with or without an annotation of
\* their own
ContractRoots ==
    LET members == {<<>>} \cup {<<first, second>> : first, second \in ContractMembers}
    IN  {ObjectNode(m) : m \in members} \cup {PolicyNode(NodeB, m) : m \in members}

InitSchema ==
    /\ contractRoot \in ContractRoots
    /\ appPolicy = [state |-> "none", schema |-> <<>>, rules |-> <<>>]
    /\ IdleServer
    /\ IdleInterp
    /\ IdleAbility
    /\ IdleFrontend
    /\ IdleExtract

\* const APP_POLICY = extractAppPolicy(appContract)
ExtractAppPolicy ==
    /\ appPolicy.state = "none"
    /\ appPolicy' =
          LET result == extractAppPolicy(contractRoot)
          IN  [state |-> IF result.threw THEN "threw" ELSE "extracted",
               schema |-> result.schema, rules |-> <<>>]
    /\ UNCHANGED contractRoot
    /\ UNCHANGED serverVars
    /\ UNCHANGED interpVars
    /\ UNCHANGED abilityVars
    /\ UNCHANGED frontend
    /\ UNCHANGED extractVars

\* createDefaultUserPolicy(APP_POLICY)
CreateDefaultUserPolicy ==
    /\ appPolicy.state = "extracted"
    /\ appPolicy' = [appPolicy EXCEPT !.state = "derived",
                                      !.rules = createDefaultUserPolicy(appPolicy.schema)]
    /\ UNCHANGED contractRoot
    /\ UNCHANGED serverVars
    /\ UNCHANGED interpVars
    /\ UNCHANGED abilityVars
    /\ UNCHANGED frontend
    /\ UNCHANGED extractVars

NextSchema ==
    \/ ExtractAppPolicy
    \/ CreateDefaultUserPolicy

SpecSchema == InitSchema /\ [][NextSchema]_vars

\* extractAppPolicy has returned a schema
Extracted == appPolicy.state \in {"extracted", "derived"}

\* the paths of the tree below a node: a path is the sequence of member positions
\* that leads from the node to a value
RECURSIVE PathsOf(_)
PathsOf(node) ==
    {<<>>} \cup UNION {{<<i>> \o path : path \in PathsOf(node.children[i])} :
                          i \in 1..Len(node.children)}
RECURSIVE NodeAt(_, _)
NodeAt(node, path) ==
    IF path = <<>> THEN node ELSE NodeAt(node.children[Head(path)], Tail(path))

\* depth-first order with members in iteration order: the order of the paths at
\* the first position where they differ
PathBefore(p, q) ==
    \E k \in 1..Len(p) :
        /\ k <= Len(q)
        /\ p[k] < q[k]
        /\ \A j \in 1..(k - 1) : p[j] = q[j]

\* the nodes below the contract that have __policy while no node on the way from
\* the contract's members down to them has
RoutesOf(root) ==
    {path \in PathsOf(root) \ {<<>>} :
        /\ NodeAt(root, path).has
        /\ \A k \in 1..(Len(path) - 1) : ~NodeAt(root, SubSeq(path, 1, k)).has}

\* the declarations of those nodes: one for every subject and action an annotation
\* of arrays names
DeclarationsOf(root) ==
    UNION {{[path |-> path, s |-> s, a |-> a] :
               s \in 1..Len(NodeAt(root, path).policy.subjects.list),
               a \in 1..Len(NodeAt(root, path).policy.actions.list)} :
           path \in RoutesOf(root)}
DeclaredSubject(root, d) == NodeAt(root, d.path).policy.subjects.list[d.s]
DeclaredAction(root, d) == NodeAt(root, d.path).policy.actions.list[d.a]
DeclaredPermission(root, d) ==
    PolicyRule(DeclaredAction(root, d), DeclaredSubject(root, d),
               NodeAt(root, d.path).policy.conditions)
\* the order in which the declarations are met: node by node, in a node subject by
\* subject, for a subject action by action
DeclaredBefore(d, e) ==
    \/ PathBefore(d.path, e.path)
    \/ d.path = e.path /\ d.s < e.s
    \/ d.path = e.path /\ d.s = e.s /\ d.a < e.a
\* the declarations of D in that order
InOrder(D) ==
    [i \in 1..Cardinality(D) |->
        CHOOSE d \in D : Cardinality({e \in D : DeclaredBefore(e, d)}) = i - 1]

\* the tree of the extraction example and the tree with its two nodes swapped
ExampleTree == ObjectNode(<<PolicyNode(NodeA, <<>>), PolicyNode(NodeB, <<>>)>>)
SwappedTree == ObjectNode(<<PolicyNode(NodeB, <<>>), PolicyNode(NodeA, <<>>)>>)
ReadPost == PolicyRule("read", "Post", NoConditions)
DeleteOwnPost == PolicyRule("delete", "Post", OneCondition("authorId", Template("userId")))

\* C21: extractAppPolicy lists subjects, actions and permissions in depth-first
\* traversal order of the route tree with keys visited in iteration order: the
\* permissions of a subject are its declarations in that order, its actions and the
\* subjects themselves stand in the order of their first declaration; for node A
\* before node B the schema is {Post: {actions: [read, delete], permissions: [read
\* Post, delete Post with the condition]}}, and swapping the nodes swaps both lists.
C21_SchemaInTraversalOrder ==
    Extracted =>
        LET D == DeclarationsOf(contractRoot)
            For(subject) == {d \in D : DeclaredSubject(contractRoot, d) = subject}
            First(E) == CHOOSE d \in E : \A e \in E : ~DeclaredBefore(e, d)
            schema == appPolicy.schema
        IN  /\ \A k \in 1..Len(schema) :
                  LET E == For(schema[k].subject)
                      ByAction(action) ==
                          {d \in E : DeclaredAction(contractRoot, d) = action}
                  IN  /\ schema[k].permissions =
                             [i \in 1..Cardinality(E) |->
                                 DeclaredPermission(contractRoot, InOrder(E)[i])]
                      /\ \A i, j \in 1..Len(schema[k].actions) :
                             i < j => DeclaredBefore(First(ByAction(schema[k].actions[i])),
                                                     First(ByAction(schema[k].actions[j])))
            /\ \A i, j \in 1..Len(schema) :
                  i < j => DeclaredBefore(First(For(schema[i].subject)),
                                          First(For(schema[j].subject)))
            /\ contractRoot = ExampleTree =>
                  schema = <<[subject |-> "Post", actions |-> <<"read", "delete">>,
                              permissions |-> <<ReadPost, DeleteOwnPost>>]>>
            /\ contractRoot = SwappedTree =>
                  schema = <<[subject |-> "Post", actions |-> <<"delete", "read">>,
                              permissions |-> <<DeleteOwnPost, ReadPost>>]>>
C21_Witness ==
    /\ Extracted
    /\ contractRoot = ExampleTree
    /\ Len(appPolicy.schema) = 1
    /\ Len(appPolicy.schema[1].permissions) = 2

\* C22: in every schema extractAppPolicy produces, for every subject entry:
\* actions has no duplicates and is exactly the set of actions of the entry's
\* permissions; every permission's subject is the entry's key; permissions holds
\* one rule per declaration (node, subject, action) and is not deduplicated, so
\* a declaration repeated by two routes appears twice and a pair declared with
\* different conditions appears as separate entries.
C22_EntryShape ==
    Extracted =>
        \A k \in 1..Len(appPolicy.schema) :
            LET entry == appPolicy.schema[k]
                declared == {d \in DeclarationsOf(contractRoot) :
                                DeclaredSubject(contractRoot, d) = entry.subject}
            IN  /\ \A i, j \in 1..Len(entry.actions) :
                       entry.actions[i] = entry.actions[j] => i = j
                /\ {entry.actions[i] : i \in 1..Len(entry.actions)}
                       = {entry.permissions[i].action : i \in 1..Len(entry.permissions)}
                /\ \A i \in 1..Len(entry.permissions) :
                       entry.permissions[i].subject = entry.subject
                /\ Len(entry.permissions) = Cardinality(declared)
                /\ \A d \in declared :
                       Cardinality({i \in 1..Len(entry.permissions) :
                                       entry.permissions[i] = DeclaredPermission(contractRoot, d)})
                       = Cardinality({e \in declared :
                                         DeclaredPermission(contractRoot, e)
                                         = DeclaredPermission(contractRoot, d)})
                /\ \A j \in 1..Len(appPolicy.schema) :
                       appPolicy.schema[j].subject = entry.subject => j = k
\* a schema in which one rule stands twice and a pair stands with two conditions
C22_Witness ==
    /\ Extracted
    /\ \E k \in 1..Len(appPolicy.schema) :
          LET permissions == appPolicy.schema[k].permissions
          IN  /\ \E i, j \in 1..Len(permissions) : i < j /\ permissions[i] = permissions[j]
              /\ \E i, j \in 1..Len(permissions) :
                     /\ permissions[i].action = permissions[j].action
                     /\ permissions[i].conditions # permissions[j].conditions
              /\ Len(appPolicy.schema[k].actions) < Len(permissions)

\* the nodes of the tree, the contract itself included, that have __policy while
\* no node above them has
MarkerNodes(root) ==
    {path \in PathsOf(root) :
        /\ NodeAt(root, path).has
        /\ \A k \in 0..(Len(path) - 1) : ~NodeAt(root, SubSeq(path, 1, k)).has}
\* the rules an annotation of arrays declares
RulesDeclaredAt(root, path) ==
    LET policy == NodeAt(root, path).policy
    IN  {PolicyRule(policy.actions.list[a], policy.subjects.list[s], policy.conditions) :
            s \in 1..Len(policy.subjects.list), a \in 1..Len(policy.actions.list)}
\* the rules of a schema
RulesOfSchema(schema) ==
    UNION {{schema[k].permissions[i] : i \in 1..Len(schema[k].permissions)} :
              k \in 1..Len(schema)}

\* C23: the rules of the extracted schema come from exactly the nodes that carry
\* the policy marker and have no marker-carrying ancestor, the root handed to
\* extractAppPolicy included: values that are no objects are ignored, nothing below
\* a marker node is visited, every other marker node contributes its annotation.
C23_RulesFromMarkerNodes ==
    Extracted =>
        RulesOfSchema(appPolicy.schema)
            = UNION {RulesDeclaredAt(contractRoot, path) : path \in MarkerNodes(contractRoot)}

\* C24: extraction is total over well-formed route trees: an empty tree or a tree
\* without policy-bearing nodes gives the empty schema, and a tree whose
\* annotations use either shape, {subjects, actions} arrays or a single {subject,
\* action}, gives without throwing a schema whose rules all have a defined action
\* and subject.
C24_ExtractionTotal ==
    appPolicy.state # "none" =>
        /\ appPolicy.state # "threw"
        /\ RoutesOf(contractRoot) = {} => appPolicy.schema = <<>>
        /\ \A rule \in RulesOfSchema(appPolicy.schema) :
               Named1(rule.action) /\ Named1(rule.subject)

\* the number of permissions in the first k entries of a schema
RECURSIVE PermissionsUpTo(_, _)
PermissionsUpTo(schema, k) ==
    IF k = 0 THEN 0 ELSE PermissionsUpTo(schema, k - 1) + Len(schema[k].permissions)

\* C25: createDefaultUserPolicy(schema) is a pure flattening: the result is the
\* concatenation of the permissions lists of all subjects in the schema's subject
\* order, each list in its own order; its length is the sum of the permissions
\* lengths and each rule has the action, subject and conditions of its permission.
C25_DefaultPolicyIsFlattening ==
    appPolicy.state = "derived" =>
        /\ Len(appPolicy.rules) = PermissionsUpTo(appPolicy.schema, Len(appPolicy.schema))
        /\ \A k \in 1..Len(appPolicy.schema) :
               \A i \in 1..Len(appPolicy.schema[k].permissions) :
                   LET rule == appPolicy.rules[PermissionsUpTo(appPolicy.schema, k - 1) + i]
                       permission == appPolicy.schema[k].permissions[i]
                   IN  /\ rule.action = permission.action
                       /\ rule.subject = permission.subject
                       /\ rule.conditions = permission.conditions
\* a default policy flattened from two subjects, one rule of it with conditions
C25_Witness ==
    /\ appPolicy.state = "derived"
    /\ Len(appPolicy.schema) = 2
    /\ Len(appPolicy.rules) > 2
    /\ \E i \in 1..Len(appPolicy.rules) : appPolicy.rules[i].conditions.has

(***************************************************************************)
(* Claims about the requests of several users, checked under Spec.         *)
(***************************************************************************)
\* a resolved user id stands in a rule's conditions
HoldsUserId(rules) ==
    \E i \in 1..Len(rules) :
        /\ rules[i].conditions.has
        /\ \E k \in PostFields : rules[i].conditions.map[k].t = "num"
                                 /\ rules[i].conditions.map[k].n \in Users

\* C26: across any sequence and interleaving of requests by any users the shared
\* default rules stay equal to their initial value: building an ability
\* interpolates into fresh copies and never writes a resolved value back into the
\* shared rules or into the caller's rule list, so one user's userId never stands
\* in the rules used for another user.
C26_SharedRulesStay ==
    [][/\ appRules' = APP_ABILITY_RULES
       /\ ~HoldsUserId(appRules')
       /\ \A u \in Users :
              ~(resp'.op = "updateUserPolicy" /\ resp'.userId = u)
                  => policies'[u] = policies[u]]_vars
\* both users have been answered from the shared rules, user 2 after user 1
C26_Witness ==
    /\ \A u \in Users : ~policies[u].has
    /\ \E row \in posts : row.authorId = 1
    /\ resp.userId = 2
    /\ resp.op = "createPost"
    /\ resp.status = 201
    /\ appRules = APP_ABILITY_RULES

\* the list is the stored form of the policy sent: rule by rule its action, subject
\* and conditions as JSON keeps them, and nothing else
StoredFormOf(stored, sent) ==
    /\ Len(stored) = Len(sent)
    /\ \A i \in 1..Len(sent) :
           /\ stored[i].action = sent[i].action
           /\ stored[i].subject = sent[i].subject
           /\ stored[i].conditions = JsonRule(sent[i]).conditions
           /\ stored[i].fields = NoFields
           /\ ~stored[i].inverted
\* the ability built from the user's stored list alone grants the action on Post
StoredGrants(u, action) ==
    CanOutcome(policies[u].rules, [userId |-> Num(u)],
               [action |-> action, subject |-> SubjectType("Post"), field |-> NoField])
        = "true"

\* C28: after updateUserPolicy of user u has answered success for list P, every
\* later request of u, until u's next successful update, is authorized with an
\* ability built from exactly the stored form of P: a successful update puts the
\* stored form of P in u's row, nothing else changes the row, and every request of
\* u is answered from the row as it is then, never from an earlier policy of u or
\* from the default rules.
C28_StoredPolicyInForce ==
    [][\A u \in Users :
          /\ (resp'.op = "updateUserPolicy" /\ resp'.userId = u /\ resp'.status = 200)
                => policies'[u].has /\ StoredFormOf(policies'[u].rules, resp'.sent)
          /\ ~(resp'.op = "updateUserPolicy" /\ resp'.userId = u /\ resp'.status = 200)
                => policies'[u] = policies[u]
          /\ (policies[u].has /\ resp'.userId = u) =>
                /\ resp'.op = "createPost"
                      => (resp'.status = 201 <=> StoredGrants(u, "create"))
                /\ resp'.op = "viewPosts"
                      => resp'.posts = IF StoredGrants(u, "read") THEN posts ELSE {}
                /\ resp'.op = "getUserPolicy" => resp'.policy = policies[u].rules]_vars
\* a user whose stored policy has no 'create' is refused by createPost, which the
\* default rules would have allowed
C28_Witness ==
    /\ resp.op = "createPost"
    /\ resp.status = 403
    /\ policies[resp.userId].has
    /\ \E other \in Users : ~policies[other].has

\* C30: deletePost checks existence before authorization: for a post id that is
\* not in the store the answer is 404 whatever the requester's rules are (even with
\* no delete rule at all), the ability is consulted only for a post that exists,
\* and a 404 leaves the post store as it is.
C30_NotFoundBeforeAuthorization ==
    [][resp'.op = "deletePost" =>
          /\ (~\E row \in posts : row.id = resp'.postId)
                => (resp'.status = 404 /\ posts' = posts)
          /\ resp'.status = 404
                => (posts' = posts /\ ~\E row \in posts : row.id = resp'.postId)]_vars
\* a user whose stored policy is empty asked for a post that is not there while
\* another post is
C30_Witness ==
    /\ resp.op = "deletePost" /\ resp.status = 404
    /\ policies[resp.userId].has /\ policies[resp.userId].rules = <<>>
    /\ posts # {}

(***************************************************************************)
(* Claims about the user-id header, checked under SpecFallback.            *)
(***************************************************************************)
\* the header is missing, is no number (it does not begin with a digit), or is 0
FallbackHeader(header) ==
    \/ ~header.has
    \/ header.s = <<>>
    \/ header.s[1] \notin Digits
    \/ \A i \in 1..Len(header.s) : header.s[i] = "0"
\* the ability built from user 1's rules with {userId: 1} answers the query with yes
UserOneCan(action, subject) ==
    CanOutcome(RulesInForce(1), [userId |-> Num(1)],
               [action |-> action, subject |-> subject, field |-> NoField]) = "true"

====
